---- MODULE Spec2Model ----
(***************************************************************************)
(* Model of data_cleaning.py: the sales-data cleaning pipeline             *)
(*   load_data -> clean_column_names -> strip_text_whitespace ->           *)
(*   handle_missing_values -> remove_invalid_rows -> to_csv.               *)
(*                                                                         *)
(* A DataFrame is [cols, rows]: cols is the sequence of columns (name and  *)
(* dtype), rows the sequence of records, each with its index label and one *)
(* cell per column.  A string is a sequence of one-character strings.      *)
(* A column is float64 (numbers and NaN) or object (strings and NaN), the  *)
(* two shapes read_csv gives a column of numbers and a column of text.     *)
(***************************************************************************)
EXTENDS Integers, Sequences, FiniteSets

VARIABLES
    file,          \* what lies at raw_path
    pc,            \* position in the __main__ block, or "fn" for a single call
    df_raw,        \* __main__: df_raw
    df_clean,      \* __main__: df_clean (the current table)
    call,          \* the function that returned or raised last
    arg,           \* the table that call was given
    exc,           \* the exception that ended the run, or "none"
    printed,       \* the lines the last step printed
    cleaned_file   \* what lies at cleaned_path: <<>> or <<the written file>>

vars == <<file, pc, df_raw, df_clean, call, arg, exc, printed, cleaned_file>>

----------------------------------------------------------------------------
(* Bounds of the model *)

MaxRows == 2
MaxScenarioRows == 3
MaxNameLen == 3

----------------------------------------------------------------------------
(* Strings *)

UpperLetters ==
    <<"A","B","C","D","E","F","G","H","I","J","K","L","M",
      "N","O","P","Q","R","S","T","U","V","W","X","Y","Z">>

LowerLetters ==
    <<"a","b","c","d","e","f","g","h","i","j","k","l","m",
      "n","o","p","q","r","s","t","u","v","w","x","y","z">>

Digits == {"0","1","2","3","4","5","6","7","8","9"}

Whitespace == {" ", "\t"}

Range(s) == {s[i] : i \in 1..Len(s)}

\* str.strip(): drop leading and trailing whitespace
RECURSIVE LStrip(_)
LStrip(s) ==
    IF s # <<>> /\ Head(s) \in Whitespace THEN LStrip(Tail(s)) ELSE s

RECURSIVE RStrip(_)
RStrip(s) ==
    IF s # <<>> /\ s[Len(s)] \in Whitespace
    THEN RStrip(SubSeq(s, 1, Len(s) - 1))
    ELSE s

Strip(s) == RStrip(LStrip(s))

\* a mutated lower(): swaps the case instead
SwapCaseChar(c) ==
    IF \E i \in 1..26 : UpperLetters[i] = c
    THEN LowerLetters[CHOOSE i \in 1..26 : UpperLetters[i] = c]
    ELSE IF \E i \in 1..26 : LowerLetters[i] = c
         THEN UpperLetters[CHOOSE i \in 1..26 : LowerLetters[i] = c]
         ELSE c

\* str.lower() on one character
LowerChar(c) ==
    IF \E i \in 1..26 : UpperLetters[i] = c
    THEN LowerLetters[CHOOSE i \in 1..26 : UpperLetters[i] = c]
    ELSE c

Lower(s) == [i \in 1..Len(s) |-> LowerChar(s[i])]

\* str.replace(' ', '_')
ReplaceSpaces(s) == [i \in 1..Len(s) |-> IF s[i] = " " THEN "_" ELSE s[i]]

\* the characters the pattern [^a-z0-9_] does not match
KeptChars == Range(LowerLetters) \cup Digits \cup {"_"}
KeptChar(c) == c \in KeptChars

\* str.replace('[^a-z0-9_]', '', regex=True)
RECURSIVE RemoveSpecial(_)
RemoveSpecial(s) ==
    IF s = <<>> THEN <<>>
    ELSE IF KeptChar(Head(s))
         THEN <<Head(s)>> \o RemoveSpecial(Tail(s))
         ELSE RemoveSpecial(Tail(s))

\* the four assignments to df.columns, on one name
NormalizeName(s) == RemoveSpecial(ReplaceSpaces(Lower(Strip(s))))

\* Python's  sub in s
Contains(sub, s) ==
    \E i \in 1..(Len(s) - Len(sub) + 1) : SubSeq(s, i, i + Len(sub) - 1) = sub

STR_price == <<"p","r","i","c","e">>
STR_quantity == <<"q","u","a","n","t","i","t","y">>
STR_qty == <<"q","t","y">>

----------------------------------------------------------------------------
(* Cells and tables *)

NaN == [t |-> "nan", n |-> 0, s |-> <<>>]
Num(k) == [t |-> "num", n |-> k, s |-> <<>>]
Str(x) == [t |-> "str", n |-> 0, s |-> x]

IsNA(c) == c.t = "nan"

NoTable == [cols |-> <<>>, rows |-> <<>>]

Names(t) == [j \in 1..Len(t.cols) |-> t.cols[j].name]
NRows(t) == Len(t.rows)

\* the positions of the columns called name
Positions(t, name) == {j \in 1..Len(t.cols) : t.cols[j].name = name}

\* df[col] is a Series when one column bears the name, a DataFrame otherwise
IsSeries(t, name) == Cardinality(Positions(t, name)) = 1
ThePosition(t, name) == CHOOSE j \in Positions(t, name) : TRUE

Result(t, e, p) == [df |-> t, exc |-> e, printed |-> p]
Line(m, k) == [msg |-> m, n |-> k]

----------------------------------------------------------------------------
(* load_data *)

\* a mutated load_data: the except clauses print and return an empty table
load_data_swallow(f) ==
    IF ~f.exists THEN Result(NoTable, "none", <<Line("Error: File not found", 0)>>)
    ELSE IF ~f.parses THEN Result(NoTable, "none", <<Line("Error loading data", 0)>>)
    ELSE Result(f.table, "none", <<Line("Successfully loaded", NRows(f.table))>>)

load_data(f) ==
    IF ~f.exists
    THEN Result(NoTable, "FileNotFoundError", <<Line("Error: File not found", 0)>>)
    ELSE IF ~f.parses
    THEN Result(NoTable, "ParserError", <<Line("Error loading data", 0)>>)
    ELSE Result(f.table, "none", <<Line("Successfully loaded", NRows(f.table))>>)

----------------------------------------------------------------------------
(* clean_column_names *)

clean_column_names(t) ==
    Result([cols |-> [j \in 1..Len(t.cols) |->
                        [name |-> NormalizeName(t.cols[j].name),
                         dtype |-> t.cols[j].dtype]],
            rows |-> t.rows],
           "none", <<Line("Cleaned column names", 0)>>)

----------------------------------------------------------------------------
(* strip_text_whitespace *)

\* df.select_dtypes(include=['object']).columns
TextColumns(t) ==
    LET Sel == SelectSeq([j \in 1..Len(t.cols) |-> j],
                         LAMBDA j : t.cols[j].dtype = "object")
    IN  [k \in 1..Len(Sel) |-> t.cols[Sel[k]].name]

\* Series.str.strip(): a string is trimmed, NaN stays NaN
StrStripCell(c) == IF c.t = "str" THEN Str(Strip(c.s)) ELSE c

\* df[col] = df[col].str.strip() for the one column at position j
StripColumn(t, j) ==
    [t EXCEPT !.rows = [i \in 1..Len(t.rows) |->
        [t.rows[i] EXCEPT !.cells[j] = StrStripCell(t.rows[i].cells[j])]]]

\* the for loop over text_columns; df[col].dtype raises when df[col] is a
\* DataFrame, that is when several columns bear the name
RECURSIVE StripLoop(_, _)
StripLoop(t, cs) ==
    IF cs = <<>> THEN [df |-> t, exc |-> "none"]
    ELSE IF ~IsSeries(t, Head(cs)) THEN [df |-> t, exc |-> "AttributeError"]
    ELSE StripLoop(StripColumn(t, ThePosition(t, Head(cs))), Tail(cs))

strip_text_whitespace(t) ==
    LET text_columns == TextColumns(t)
        r == StripLoop(t, text_columns)
    IN  IF r.exc # "none" THEN Result(t, r.exc, <<>>)
        ELSE Result(r.df, "none", <<Line("Stripped whitespace", Len(text_columns))>>)

----------------------------------------------------------------------------
(* handle_missing_values *)

IsCritical(name) ==
    Contains(STR_price, name) \/ Contains(STR_quantity, name) \/ Contains(STR_qty, name)

\* [col for col in df.columns if 'price' in col or 'quantity' in col or 'qty' in col]
CriticalColumns(t) == SelectSeq(Names(t), IsCritical)

\* a mutated dropna: how='all'
dropna_all(t, subset) ==
    [t EXCEPT !.rows = SelectSeq(t.rows, LAMBDA r :
        \/ \A j \in 1..Len(t.cols) : t.cols[j].name \notin Range(subset)
        \/ \E j \in 1..Len(t.cols) :
             t.cols[j].name \in Range(subset) /\ ~IsNA(r.cells[j]))]

\* a mutated dropna: axis=1, the columns holding a missing value go
dropna_columns(t, subset) ==
    LET Sel == SelectSeq([j \in 1..Len(t.cols) |-> j], LAMBDA j :
                 ~(t.cols[j].name \in Range(subset)
                   /\ \E i \in 1..Len(t.rows) : IsNA(t.rows[i].cells[j])))
    IN  [cols |-> [k \in 1..Len(Sel) |-> t.cols[Sel[k]]],
         rows |-> [i \in 1..Len(t.rows) |->
                     [idx |-> t.rows[i].idx,
                      cells |-> [k \in 1..Len(Sel) |-> t.rows[i].cells[Sel[k]]]]]]

\* df.dropna(subset=subset): a row stays when none of the named columns is missing in it
dropna(t, subset) ==
    [t EXCEPT !.rows = SelectSeq(t.rows, LAMBDA r :
        \A j \in 1..Len(t.cols) :
            t.cols[j].name \in Range(subset) => ~IsNA(r.cells[j]))]

\* a mutated handle_missing_values: without critical columns, dropna() on every column
handle_missing_values_dropany(t) ==
    LET critical_columns == CriticalColumns(t)
        d == IF critical_columns # <<>> THEN dropna(t, critical_columns)
             ELSE dropna(t, Names(t))
    IN  IF critical_columns # <<>>
        THEN Result(d, "none", <<Line("Removed rows with missing critical values",
                                       NRows(t) - NRows(d))>>)
        ELSE Result(d, "none", <<Line("Warning: No critical columns identified", 0)>>)

handle_missing_values(t) ==
    LET initial_rows == NRows(t)
        critical_columns == CriticalColumns(t)
    IN  IF critical_columns # <<>>
        THEN LET d == dropna(t, critical_columns)
             IN  Result(d, "none", <<Line("Removed rows with missing critical values",
                                           initial_rows - NRows(d))>>)
        ELSE Result(t, "none", <<Line("Warning: No critical columns identified", 0)>>)

----------------------------------------------------------------------------
(* remove_invalid_rows *)

\* pd.api.types.is_numeric_dtype(df[col]): False for a DataFrame
is_numeric_dtype(t, name) ==
    IsSeries(t, name) /\ t.cols[ThePosition(t, name)].dtype = "float64"

\* a mutated filter: df[df[col] > 0]
PositiveRows(t, j) ==
    [t EXCEPT !.rows = SelectSeq(t.rows, LAMBDA r :
        r.cells[j].t = "num" /\ r.cells[j].n > 0)]

\* a mutated filter: the selection is appended to the table
AppendNonNegativeRows(t, j) ==
    [t EXCEPT !.rows = t.rows \o SelectSeq(t.rows, LAMBDA r :
        r.cells[j].t = "num" /\ r.cells[j].n >= 0)]

\* df[df[col] >= 0]: NaN >= 0 is False
NonNegativeRows(t, j) ==
    [t EXCEPT !.rows = SelectSeq(t.rows, LAMBDA r :
        r.cells[j].t = "num" /\ r.cells[j].n >= 0)]

\* for col in cs: if is_numeric_dtype(df[col]): df = df[df[col] >= 0]
RECURSIVE FilterLoop(_, _)
FilterLoop(t, cs) ==
    IF cs = <<>> THEN t
    ELSE IF is_numeric_dtype(t, Head(cs))
         THEN FilterLoop(NonNegativeRows(t, ThePosition(t, Head(cs))), Tail(cs))
         ELSE FilterLoop(t, Tail(cs))

IsQuantityName(name) == Contains(STR_quantity, name) \/ Contains(STR_qty, name)
IsPriceName(name) == Contains(STR_price, name)

remove_invalid_rows(t) ==
    LET initial_rows == NRows(t)
        quantity_cols == SelectSeq(Names(t), IsQuantityName)
        d1 == FilterLoop(t, quantity_cols)
        price_cols == SelectSeq(Names(d1), IsPriceName)
        d2 == FilterLoop(d1, price_cols)
    IN  Result(d2, "none", <<Line("Removed rows with invalid values",
                                  initial_rows - NRows(d2))>>)

----------------------------------------------------------------------------
(* to_csv(cleaned_path, index=False): the header and the cells, without the index *)

to_csv(t) ==
    [header |-> Names(t),
     records |-> [i \in 1..Len(t.rows) |-> t.rows[i].cells]]

----------------------------------------------------------------------------
(* The inputs: what read_csv can return for the file at raw_path *)

TextCells == {Str(<<"a">>), Str(<<" ", "a", " ">>), NaN}
TrimmedCells == {Str(<<" ", "a">>), Str(<<"a">>)}
NumberCells == {Num(-1), Num(0), NaN}
CountCells == {Num(0), NaN}

Col(name, choices) == [name |-> name, choices |-> choices]
Float64 == [dtype |-> "float64", cells |-> NumberCells]
Object == [dtype |-> "object", cells |-> TextCells]
ObjectFull == [dtype |-> "object", cells |-> TrimmedCells]
Float64Count == [dtype |-> "float64", cells |-> CountCells]

\* the headers of the files tried; read_csv makes the names of a header distinct
Scenario ==
    <<Col(<<"P","r","o","d","u","c","t"," ","N","a","m","e">>, {ObjectFull}),
      Col(<<"U","n","i","t"," ","P","r","i","c","e">>, {Float64}),
      Col(<<"Q","t","y"," ","S","o","l","d"," ">>, {Float64Count})>>

Schemas ==
    { <<Col(<<"Q","t","y">>, {Float64, Object}),
        Col(<<"q","t","y"," ">>, {Float64})>>,
      <<Col(<<"N","a","m","e">>, {Object}),
        Col(<<"I","d">>, {Float64})>>,
      <<Col(<<"P","r","i","c","e","$">>, {Float64, Object}),
        Col(<<"q","u","a","n","t","i","t","y">>, {Float64})>> }

\* the dtypes the columns of a header can have, one choice per column
DtypeChoices(sc) ==
    {d \in [1..Len(sc) -> {Float64, Float64Count, Object, ObjectFull}] :
        \A j \in 1..Len(sc) : d[j] \in sc[j].choices}

\* the records a file of these columns can hold
RECURSIVE RecordsFrom(_, _)
RecordsFrom(d, j) ==
    IF j > Len(d) THEN {<<>>}
    ELSE {<<c>> \o rest : c \in d[j].cells, rest \in RecordsFrom(d, j + 1)}

\* the table read from a file of the header sc, under the index 0..n-1
MakeTable(sc, d, recs) ==
    [cols |-> [j \in 1..Len(sc) |-> [name |-> sc[j].name, dtype |-> d[j].dtype]],
     rows |-> [i \in 1..Len(recs) |-> [idx |-> i - 1, cells |-> recs[i]]]]

\* every string of at most k characters over the characters of Alphabet
Alphabet == {" ", "Q", "q", "$"}

RECURSIVE StringsUpTo(_)
StringsUpTo(k) ==
    IF k = 0 THEN {<<>>}
    ELSE LET S == StringsUpTo(k - 1)
         IN  S \cup {<<c>> \o x : c \in Alphabet, x \in {y \in S : Len(y) = k - 1}}

\* a header field is not empty
RawNames == StringsUpTo(MaxNameLen) \ {<<>>}

----------------------------------------------------------------------------
(* The __main__ block *)

Init ==
    /\ \/ file = [exists |-> FALSE, parses |-> FALSE, table |-> NoTable]
       \/ file = [exists |-> TRUE, parses |-> FALSE, table |-> NoTable]
       \/ \E sc \in Schemas \cup {Scenario} : \E d \in DtypeChoices(sc) :
            \E n \in 0..(IF sc = Scenario THEN MaxScenarioRows ELSE MaxRows) :
              \E recs \in [1..n -> RecordsFrom(d, 1)] :
                file = [exists |-> TRUE, parses |-> TRUE,
                        table |-> MakeTable(sc, d, recs)]
    /\ pc = "load"
    /\ df_raw = NoTable
    /\ df_clean = NoTable
    /\ call = "none"
    /\ arg = NoTable
    /\ exc = "none"
    /\ printed = <<>>
    /\ cleaned_file = <<>>

\* df_raw = load_data(raw_path)
Load ==
    /\ pc = "load"
    /\ LET r == load_data(file)
       IN  /\ exc' = r.exc
           /\ printed' = r.printed
           /\ df_raw' = r.df
           /\ pc' = IF r.exc = "none" THEN "clean" ELSE "raised"
    /\ UNCHANGED <<file, df_clean, call, arg, cleaned_file>>

\* df_clean = f(t), or the exception f raises
Stage(at, name, r, t, next) ==
    /\ pc = at
    /\ call' = name
    /\ arg' = t
    /\ exc' = r.exc
    /\ printed' = r.printed
    /\ df_clean' = IF r.exc = "none" THEN r.df ELSE df_clean
    /\ pc' = IF r.exc = "none" THEN next ELSE "raised"
    /\ UNCHANGED <<file, df_raw, cleaned_file>>

Clean == Stage("clean", "clean_column_names", clean_column_names(df_raw), df_raw, "strip")

Strip_ == Stage("strip", "strip_text_whitespace", strip_text_whitespace(df_clean),
                df_clean, "missing")

Missing == Stage("missing", "handle_missing_values", handle_missing_values(df_clean),
                 df_clean, "invalid")

Invalid == Stage("invalid", "remove_invalid_rows", remove_invalid_rows(df_clean),
                 df_clean, "write")

\* df_clean.to_csv(cleaned_path, index=False)
Write ==
    /\ pc = "write"
    /\ cleaned_file' = <<to_csv(df_clean)>>
    /\ printed' = <<Line("Saved cleaned data", NRows(df_clean))>>
    /\ pc' = "done"
    /\ UNCHANGED <<file, df_raw, df_clean, call, arg, exc>>

Next == Load \/ Clean \/ Strip_ \/ Missing \/ Invalid \/ Write

Spec == Init /\ [][Next]_vars

----------------------------------------------------------------------------
(* Each function called on its own, on any table the functions can produce *)

InitFn ==
    /\ file = [exists |-> TRUE, parses |-> TRUE, table |-> NoTable]
    /\ pc = "fn"
    /\ \E sc \in Schemas : \E d \in DtypeChoices(sc) :
         \E n \in 0..MaxRows : \E recs \in [1..n -> RecordsFrom(d, 1)] :
             df_raw = MakeTable(sc, d, recs)
    /\ df_clean = df_raw
    /\ call = "none"
    /\ arg = NoTable
    /\ exc = "none"
    /\ printed = <<>>
    /\ cleaned_file = <<>>

FnClean == Stage("fn", "clean_column_names", clean_column_names(df_clean), df_clean, "fn")

FnStrip == Stage("fn", "strip_text_whitespace", strip_text_whitespace(df_clean),
                 df_clean, "fn")

FnMissing == Stage("fn", "handle_missing_values", handle_missing_values(df_clean),
                   df_clean, "fn")

FnInvalid == Stage("fn", "remove_invalid_rows", remove_invalid_rows(df_clean),
                   df_clean, "fn")

NextFn == FnClean \/ FnStrip \/ FnMissing \/ FnInvalid

SpecFn == InitFn /\ [][NextFn]_vars

----------------------------------------------------------------------------
(* clean_column_names on any pair of column names *)

InitNames ==
    /\ file = [exists |-> TRUE, parses |-> TRUE, table |-> NoTable]
    /\ pc = "fn"
    /\ \E a \in RawNames : \E b \in RawNames \ {a} :
         df_raw = [cols |-> <<[name |-> a, dtype |-> "object"],
                              [name |-> b, dtype |-> "object"]>>,
                   rows |-> <<>>]
    /\ df_clean = df_raw
    /\ call = "none"
    /\ arg = NoTable
    /\ exc = "none"
    /\ printed = <<>>
    /\ cleaned_file = <<>>

NextNames == FnClean

SpecNames == InitNames /\ [][NextNames]_vars

----------------------------------------------------------------------------
(* Properties *)

Distinct(s) == \A i, j \in 1..Len(s) : i # j => s[i] # s[j]

StageCalls == {"strip_text_whitespace", "handle_missing_values", "remove_invalid_rows"}

\* the value v is negative
Negative(c) == c.t = "num" /\ c.n < 0

\* C1: clean_column_names is idempotent: cleaning the names it returned
\* gives the same list of names again.
C1_CleanIdempotent ==
    call = "clean_column_names" =>
        Names(clean_column_names(df_clean).df) = Names(df_clean)

\* "Q q" was cleaned to "q_q": case, an inner space and a change of the name
C1_Witness ==
    /\ call = "clean_column_names"
    /\ arg.cols[1].name = <<"Q", " ", "q">>
    /\ df_clean.cols[1].name = <<"q", "_", "q">>
    /\ arg.cols[2].name = <<" ", "$", "Q">>
    /\ df_clean.cols[2].name = <<"q">>

\* C2: no function returns more rows than it was given.
C2_RowsNeverIncrease ==
    call # "none" => NRows(df_clean) <= NRows(arg)

\* remove_invalid_rows dropped one row of two
C2_Witness ==
    /\ call = "remove_invalid_rows"
    /\ NRows(arg) = 2
    /\ NRows(df_clean) = 1

\* C3: after remove_invalid_rows no numeric column whose name contains
\* "price", "quantity" or "qty" holds a negative value.
C3_NoNegativeLeft ==
    call = "remove_invalid_rows" =>
        \A j \in 1..Len(df_clean.cols) :
            (IsCritical(df_clean.cols[j].name) /\ df_clean.cols[j].dtype = "float64") =>
                \A i \in 1..NRows(df_clean) : ~Negative(df_clean.rows[i].cells[j])

\* C4: after handle_missing_values every row has a value in every critical column.
C4_NoMissingCritical ==
    (call = "handle_missing_values" /\ exc = "none") =>
        \A j \in 1..Len(df_clean.cols) :
            IsCritical(df_clean.cols[j].name) =>
                \A i \in 1..NRows(df_clean) : ~IsNA(df_clean.rows[i].cells[j])

\* two critical columns, one row of two dropped for a missing value
C4_Witness ==
    /\ call = "handle_missing_values"
    /\ Len(CriticalColumns(arg)) = 2
    /\ NRows(arg) = 2
    /\ NRows(df_clean) = 1
    /\ \E j \in 1..2 : IsNA(arg.rows[1].cells[j])

\* C5: strip_text_whitespace, handle_missing_values and remove_invalid_rows
\* return the column names of their input, in the same order.
C5_ColumnsFixed ==
    (call \in StageCalls /\ exc = "none") => Names(df_clean) = Names(arg)

\* handle_missing_values dropped a row of a table of two columns
C5_Witness ==
    /\ call = "handle_missing_values"
    /\ Len(arg.cols) = 2
    /\ CriticalColumns(arg) # <<>>
    /\ NRows(df_clean) < NRows(arg)

\* C6: when raw_path does not exist the run ends in FileNotFoundError after the
\* error line; no function is called on a table and nothing is written.
C6_MissingFileAborts ==
    ~file.exists =>
        /\ pc \in {"load", "raised"}
        /\ call = "none"
        /\ df_clean = NoTable
        /\ cleaned_file = <<>>
        /\ pc = "raised" =>
              /\ exc = "FileNotFoundError"
              /\ printed = <<Line("Error: File not found", 0)>>

C6_Witness ==
    /\ ~file.exists
    /\ pc = "raised"
    /\ exc = "FileNotFoundError"

\* C7: without a critical column handle_missing_values returns its input
\* unchanged and prints the warning.
C7_NoCriticalUnchanged ==
    (call = "handle_missing_values" /\ CriticalColumns(arg) = <<>>) =>
        /\ exc = "none"
        /\ df_clean = arg
        /\ printed = <<Line("Warning: No critical columns identified", 0)>>

\* a table without critical columns that holds a missing value
C7_Witness ==
    /\ call = "handle_missing_values"
    /\ CriticalColumns(arg) = <<>>
    /\ NRows(arg) = 2
    /\ \E j \in 1..Len(arg.cols) : IsNA(arg.rows[1].cells[j])
    /\ df_clean = arg

\* C8: distinct column names stay distinct under clean_column_names.
C8_NamesStayDistinct ==
    (call = "clean_column_names" /\ Distinct(Names(arg))) => Distinct(Names(df_clean))

\* what the run is to write for the table raw: the cleaned names, the rows with
\* a value in every critical column and no negative number in a numeric one, in
\* their order, the text trimmed
Expected(raw) ==
    LET names == [j \in 1..Len(raw.cols) |-> NormalizeName(raw.cols[j].name)]
        Good(r) ==
            \A j \in 1..Len(raw.cols) :
                IsCritical(names[j]) =>
                    /\ ~IsNA(r.cells[j])
                    /\ raw.cols[j].dtype = "float64" => ~Negative(r.cells[j])
        Trim(r) == [r EXCEPT !.cells = [j \in 1..Len(raw.cols) |->
                       IF r.cells[j].t = "str" THEN Str(Strip(r.cells[j].s))
                       ELSE r.cells[j]]]
        kept == SelectSeq(raw.rows, Good)
    IN  [cols |-> [j \in 1..Len(raw.cols) |->
                     [name |-> names[j], dtype |-> raw.cols[j].dtype]],
         rows |-> [i \in 1..Len(kept) |-> Trim(kept[i])]]

\* C9: when the cleaned names are distinct the run ends normally, with exactly
\* the rows that have a value in every critical column and no negative number
\* in a numeric one, in their order, the text trimmed, and that is what is written.
C9_EndToEnd ==
    (pc \in {"raised", "write", "done"} /\ file.parses) =>
        LET e == Expected(df_raw)
        IN  Distinct(Names(e)) =>
                /\ pc # "raised"
                /\ df_clean = e
                /\ pc = "done" => cleaned_file = <<to_csv(e)>>

\* the scenario: the row without a quantity and the row of negative price are
\* gone, the third row is kept with its text trimmed
C9_Witness ==
    /\ pc = "done"
    /\ Names(df_clean) = << <<"p","r","o","d","u","c","t","_","n","a","m","e">>,
                            <<"u","n","i","t","_","p","r","i","c","e">>,
                            <<"q","t","y","_","s","o","l","d">> >>
    /\ NRows(df_raw) = 3
    /\ IsNA(df_raw.rows[1].cells[3])
    /\ df_raw.rows[2].cells[2] = Num(-1) /\ df_raw.rows[2].cells[3] = Num(0)
    /\ df_raw.rows[3].cells[1] = Str(<<" ", "a">>)
    /\ df_clean.rows = <<[idx |-> 2, cells |-> <<Str(<<"a">>), Num(0), Num(0)>>]>>
    /\ Len(cleaned_file) = 1

\* C10: remove_invalid_rows keeps every row that holds no negative number in a
\* numeric column whose name contains "quantity", "qty" or "price".
C10_OnlyNegativeRowsRemoved ==
    call = "remove_invalid_rows" =>
        \A i \in 1..NRows(arg) :
            (\A j \in 1..Len(arg.cols) :
                (IsCritical(arg.cols[j].name) /\ arg.cols[j].dtype = "float64") =>
                    ~Negative(arg.rows[i].cells[j]))
            => \E k \in 1..NRows(df_clean) : df_clean.rows[k] = arg.rows[i]

====
